---- MODULE Spec2Model ----
(***************************************************************************)
(* A model of find_coco_json.py: the COCO bounding-box visualiser.         *)
(*                                                                         *)
(* The program is sequential.  One run of main() is modelled by three      *)
(* actions: Startup (argument check, find_coco_json, load_coco,            *)
(* build_indices, category_color_map, subset parsing), LoopIteration (one  *)
(* pass through the body of the `for img_id, img in images_by_id.items()`  *)
(* loop) and LoopEnd (the two summaries printed after the loop).           *)
(*                                                                         *)
(* Text (file names, the --subset argument) is a sequence of one-character *)
(* strings, so that split(",") and strip() are computed, not assumed.      *)
(* A Python dict is a record [keys, val]: keys is the insertion order.     *)
(* An exception nobody catches ends the process with exit code 1.          *)
(***************************************************************************)
EXTENDS Integers, Sequences, FiniteSets, TLC

\* ---------------------------------------------------------------- bounds
MaxImages == 3
MaxAnns == 3
MaxSubsetLen == 3
MaxJsons == 3
MaxCats == 3
MaxPalette == 2

\* ------------------------------------------------------------ input pools
Names == {<<"a">>, <<"b">>}
ImageIds == {1, 2, 3}
CatIds == {1, 3, 5}
Colors == {"red", "blue"}
JsonNames == {"annotations.json", "coco.json", "foo.json", "bar.json"}
SubsetAlphabet == {"a", "b", ",", " "}
RequiredKeys == <<"images", "annotations", "categories">>

SeqUpTo(S, n) == UNION {[1..k -> S] : k \in 0..n}
Range(s) == {s[i] : i \in DOMAIN s}
IsInjective(s) == \A i, j \in DOMAIN s : i # j => s[i] # s[j]

VARIABLES
  folder,          \* the directory: [ok, jsons (glob order), existing, decodable]
  data,            \* what json.load returns: [keys, images, annotations, categories]
  args,            \* parsed command line: [show, save, subset]
  rcColors,        \* plt.rcParams['axes.prop_cycle'].by_key().get('color')
  pc,              \* "start", "loop" or "exit"
  exitCode,        \* -1 while the process runs
  raised,          \* the exception that ended the run: [type, detail]
  coco_path,       \* find_coco_json's result
  coco,            \* load_coco's result
  images_by_id, anns_by_image, categories_by_id, color_map, allowed_names,
  cursor,          \* how many entries of images_by_id.items() the loop consumed
  processed, missing_images,
  figures,         \* image ids whose figure pyplot still holds open
  rendered,        \* figures that main received back from draw_image_with_bboxes
  visited,         \* history: the (img_id, file_name) pairs the loop has taken
  stdout, stderr

inputs == <<folder, data, args, rcColors>>
vars == <<folder, data, args, rcColors, pc, exitCode, raised, coco_path, coco,
          images_by_id, anns_by_image, categories_by_id, color_map,
          allowed_names, cursor, processed, missing_images, figures, rendered,
          visited, stdout, stderr>>

\* ------------------------------------------------------------------ dicts
EmptyDict == [keys |-> <<>>, val |-> <<>>]
\* faulty variant: a colliding id keeps the record stored first
DictPutFirstWins(d, k, v) ==
  [keys |-> IF k \in Range(d.keys) THEN d.keys ELSE Append(d.keys, k),
   val  |-> d.val @@ (k :> v)]

DictPut(d, k, v) ==
  [keys |-> IF k \in Range(d.keys) THEN d.keys ELSE Append(d.keys, k),
   val  |-> (k :> v) @@ d.val]

\* ------------------------------------------------------- find_coco_json
NoException == [type |-> "none", detail |-> "none"]
PreferredNames == {"annotations.json", "coco.json"}
SelectSeq2(s, S) == SelectSeq(s, LAMBDA p : p \in S)

\* faulty variant: any preferred name settles an ambiguous folder
find_coco_json_any_preferred(jsons) ==
  IF Len(jsons) = 0
  THEN [raised |-> [type |-> "FileNotFoundError", detail |-> "No .json file found"],
        value |-> "none"]
  ELSE IF Len(jsons) > 1
  THEN LET preferred == SelectSeq2(jsons, PreferredNames)
       IN IF Len(preferred) >= 1
          THEN [raised |-> NoException, value |-> preferred[1]]
          ELSE [raised |-> [type |-> "RuntimeError",
                            detail |-> "Multiple .json files found"],
                value |-> "none"]
  ELSE [raised |-> NoException, value |-> jsons[1]]

find_coco_json(jsons) ==
  IF Len(jsons) = 0
  THEN [raised |-> [type |-> "FileNotFoundError", detail |-> "No .json file found"],
        value |-> "none"]
  ELSE IF Len(jsons) > 1
  THEN LET preferred == SelectSeq2(jsons, PreferredNames)
       IN IF Len(preferred) = 1
          THEN [raised |-> NoException, value |-> preferred[1]]
          ELSE [raised |-> [type |-> "RuntimeError",
                            detail |-> "Multiple .json files found"],
                value |-> "none"]
  ELSE [raised |-> NoException, value |-> jsons[1]]

\* ------------------------------------------------------------- load_coco
RECURSIVE FirstMissingFrom(_, _)
FirstMissingFrom(keys, present) ==
  IF keys = <<>> THEN "none"
  ELSE IF Head(keys) \notin present THEN Head(keys)
  ELSE FirstMissingFrom(Tail(keys), present)

\* faulty variant: the categories section is not checked
load_coco_two_keys(d) ==
  LET key == FirstMissingFrom(<<"images", "annotations">>, d.keys)
  IN IF key # "none"
     THEN [raised |-> [type |-> "ValueError", detail |-> key], value |-> d]
     ELSE [raised |-> NoException, value |-> d]

load_coco(d) ==
  LET key == FirstMissingFrom(RequiredKeys, d.keys)
  IN IF key # "none"
     THEN [raised |-> [type |-> "ValueError", detail |-> key], value |-> d]
     ELSE [raised |-> NoException, value |-> d]

\* --------------------------------------------------------- build_indices
RECURSIVE DictOfIds(_)
DictOfIds(recs) ==
  IF recs = <<>> THEN EmptyDict
  ELSE LET n == Len(recs)
       IN DictPut(DictOfIds(SubSeq(recs, 1, n - 1)), recs[n].id, recs[n])

\* faulty variant: each annotation is put in front of its image's list
RECURSIVE GroupAnnsPrepend(_)
GroupAnnsPrepend(anns) ==
  IF anns = <<>> THEN <<>>
  ELSE LET n == Len(anns)
           g == GroupAnnsPrepend(SubSeq(anns, 1, n - 1))
           k == anns[n].image_id
           old == IF k \in DOMAIN g THEN g[k] ELSE <<>>
       IN (k :> (<<anns[n]>> \o old)) @@ g

RECURSIVE GroupAnns(_)
GroupAnns(anns) ==
  IF anns = <<>> THEN <<>>
  ELSE LET n == Len(anns)
           g == GroupAnns(SubSeq(anns, 1, n - 1))
           k == anns[n].image_id
           old == IF k \in DOMAIN g THEN g[k] ELSE <<>>
       IN (k :> Append(old, anns[n])) @@ g

build_indices(c) ==
  [images_by_id |-> DictOfIds(c.images),
   anns_by_image |-> GroupAnns(c.annotations),
   categories_by_id |-> DictOfIds(c.categories)]

\* ---------------------------------------------------- category_color_map
FallbackPalette == <<"C0", "C1", "C2", "C3", "C4", "C5", "C6", "C7", "C8", "C9">>

RECURSIVE Sorted(_)
Sorted(S) ==
  IF S = {} THEN <<>>
  ELSE LET m == CHOOSE x \in S : \A y \in S : x <= y
       IN <<m>> \o Sorted(S \ {m})

\* pos is the position itertools.cycle will yield next
RECURSIVE AssignColors(_, _, _)
AssignColors(ids, colors, pos) ==
  IF ids = <<>> THEN <<>>
  ELSE (Head(ids) :> colors[pos])
       @@ AssignColors(Tail(ids), colors, IF pos = Len(colors) THEN 1 ELSE pos + 1)

\* faulty variant: the ids are walked in insertion order, not sorted
CategoryOrderInserted(cats) == cats.keys

CategoryOrder(cats) == Sorted(Range(cats.keys))

category_color_map(cats, rc) ==
  LET colors == IF rc = <<>> THEN FallbackPalette ELSE rc
  IN AssignColors(CategoryOrder(cats), colors, 1)

\* --------------------------------------------------------- subset parsing
RECURSIVE Split(_)
Split(s) ==
  IF \E i \in DOMAIN s : s[i] = ","
  THEN LET i == CHOOSE j \in DOMAIN s : s[j] = "," /\ \A k \in 1..(j - 1) : s[k] # ","
       IN <<SubSeq(s, 1, i - 1)>> \o Split(SubSeq(s, i + 1, Len(s)))
  ELSE <<s>>

RECURSIVE LStrip(_)
LStrip(s) == IF s # <<>> /\ Head(s) = " " THEN LStrip(Tail(s)) ELSE s
RECURSIVE RStrip(_)
RStrip(s) ==
  IF s # <<>> /\ s[Len(s)] = " " THEN RStrip(SubSeq(s, 1, Len(s) - 1)) ELSE s
Strip(s) == RStrip(LStrip(s))

NoNames == [isNone |-> TRUE, names |-> {}]
ParseSubset(subset) ==
  IF subset.given /\ subset.str # <<>>
  THEN [isNone |-> FALSE,
        names |-> {Strip(p) : p \in Range(Split(subset.str))} \ {<<>>}]
  ELSE NoNames

\* `if allowed_names and file_name not in allowed_names: continue`
FilteredOut(allowed, file_name) ==
  (~allowed.isNone /\ allowed.names # {}) /\ file_name \notin allowed.names

\* ------------------------------------------------ draw_image_with_bboxes
ColorOf(cmap, cat_id) == IF cat_id \in DOMAIN cmap THEN cmap[cat_id] ELSE "white"

\* the rectangles added before the loop over anns ends or an unpacking fails
RECURSIVE DrawRects(_, _)
DrawRects(anns, cmap) ==
  IF anns = <<>> \/ ~Head(anns).bbox_ok THEN <<>>
  ELSE <<[ann |-> Head(anns).id, color |-> ColorOf(cmap, Head(anns).category_id)]>>
       \o DrawRects(Tail(anns), cmap)

draw_image_with_bboxes(file_name, anns, cmap, fs) ==
  IF file_name \notin fs.decodable
  THEN [raised |-> [type |-> "RuntimeError", detail |-> "Failed to open image"],
        created |-> FALSE, rects |-> <<>>]
  ELSE IF \E i \in DOMAIN anns : ~anns[i].bbox_ok
  THEN [raised |-> [type |-> "ValueError", detail |-> "bbox"],
        created |-> TRUE, rects |-> DrawRects(anns, cmap)]
  ELSE [raised |-> NoException, created |-> TRUE, rects |-> DrawRects(anns, cmap)]

\* ------------------------------------------------------------------ main
AnnsGet(g, img_id) == IF img_id \in DOMAIN g THEN g[img_id] ELSE <<>>

Title(file_name, anns) ==
  [file_name |-> file_name, count |-> Len(anns),
   word |-> IF Len(anns) # 1 THEN "bboxes" ELSE "bbox"]

\* Path(file_name).stem: the name without its last suffix
Stem(name) ==
  LET dots == {i \in DOMAIN name : name[i] = "."}
  IN IF dots = {} THEN name
     ELSE LET i == CHOOSE j \in dots : \A k \in dots : k <= j
          IN IF i > 1 /\ i < Len(name) THEN SubSeq(name, 1, i - 1) ELSE name
OverlayName(file_name) == Stem(file_name) \o <<"__overlay.png">>

\* faulty variant: a file name already recorded is not recorded again
RecordMissingDistinct(missing, file_name) ==
  IF file_name \in Range(missing) THEN missing ELSE Append(missing, file_name)

\* `missing_images.append(file_name)`
RecordMissing(missing, file_name) == Append(missing, file_name)

\* `if missing_images:` and the lines it prints
MissingWarning(missing) ==
  IF missing # <<>> THEN <<[kind |-> "missing", names |-> missing]>> ELSE <<>>

\* faulty variant: off by one
NoneProcessedUpToOne(n) == n <= 1

\* `if processed == 0:`
NoneProcessed(n) == n = 0

\* what plt.close(fig) leaves open
CloseFigure(figs, img_id) == figs \ {img_id}

Startup ==
  /\ pc = "start"
  /\ LET found == find_coco_json(folder.jsons)
         loaded == load_coco(data)
         failure == IF ~folder.ok
                    THEN [type |-> "SystemExit", detail |-> "folder"]
                    ELSE IF found.raised # NoException THEN found.raised
                    ELSE loaded.raised
         ok == failure = NoException
         idx == build_indices(loaded.value)
     IN /\ pc' = IF ok THEN "loop" ELSE "exit"
        /\ exitCode' = IF ok THEN exitCode ELSE 1
        /\ raised' = failure
        /\ stderr' = IF ok THEN stderr
                     ELSE Append(stderr, [kind |-> failure.type, names |-> <<>>])
        /\ coco_path' = IF folder.ok /\ found.raised = NoException
                        THEN found.value ELSE coco_path
        /\ coco' = IF ok THEN loaded.value ELSE coco
        /\ images_by_id' = IF ok THEN idx.images_by_id ELSE images_by_id
        /\ anns_by_image' = IF ok THEN idx.anns_by_image ELSE anns_by_image
        /\ categories_by_id' = IF ok THEN idx.categories_by_id ELSE categories_by_id
        /\ color_map' = IF ok THEN category_color_map(idx.categories_by_id, rcColors)
                        ELSE color_map
        /\ allowed_names' = IF ok THEN ParseSubset(args.subset) ELSE allowed_names
  /\ UNCHANGED <<inputs, cursor, processed, missing_images, figures, rendered,
                 visited, stdout>>

\* the entry the for loop is about to take
CurId == images_by_id.keys[cursor + 1]
CurName == images_by_id.val[CurId].file_name

LoopIteration ==
  /\ pc = "loop"
  /\ cursor < Len(images_by_id.keys)
  /\ cursor' = cursor + 1
  /\ visited' = Append(visited, [img_id |-> CurId, file_name |-> CurName])
  /\ LET img_id == CurId
         file_name == CurName
         anns == AnnsGet(anns_by_image, img_id)
         drawn == draw_image_with_bboxes(file_name, anns, color_map, folder)
     IN IF FilteredOut(allowed_names, file_name)
        THEN UNCHANGED <<pc, exitCode, raised, processed, missing_images,
                         figures, rendered, stdout, stderr>>
        ELSE IF file_name \notin folder.existing
        THEN /\ missing_images' = RecordMissing(missing_images, file_name)
             /\ UNCHANGED <<pc, exitCode, raised, processed, figures, rendered,
                            stdout, stderr>>
        ELSE IF drawn.raised # NoException
        THEN /\ pc' = "exit"
             /\ exitCode' = 1
             /\ raised' = drawn.raised
             /\ stderr' = Append(stderr, [kind |-> drawn.raised.type, names |-> <<>>])
             /\ figures' = IF drawn.created THEN figures \cup {img_id} ELSE figures
             /\ UNCHANGED <<processed, missing_images, rendered, stdout>>
        ELSE /\ rendered' = Append(rendered,
                              [img_id |-> img_id, file_name |-> file_name,
                               anns |-> anns, rects |-> drawn.rects,
                               title |-> Title(file_name, anns)])
             /\ stdout' = IF args.save THEN Append(stdout, OverlayName(file_name))
                          ELSE stdout
             /\ IF args.show
                THEN \* plt.show(): a GUI backend returns once the user has closed
                     \* every window, a non-interactive one returns at once and
                     \* leaves the figures registered
                     \E dismissed \in BOOLEAN :
                       figures' = IF dismissed THEN {} ELSE figures \cup {img_id}
                ELSE figures' = CloseFigure(figures \cup {img_id}, img_id)
             /\ processed' = processed + 1
             /\ UNCHANGED <<pc, exitCode, raised, missing_images, stderr>>
  /\ UNCHANGED <<inputs, coco_path, coco, images_by_id, anns_by_image,
                 categories_by_id, color_map, allowed_names>>

LoopEnd ==
  /\ pc = "loop"
  /\ cursor = Len(images_by_id.keys)
  /\ stderr' = stderr
               \o MissingWarning(missing_images)
               \o (IF NoneProcessed(processed)
                   THEN <<[kind |-> "none_processed", names |-> <<>>]>> ELSE <<>>)
  /\ pc' = "exit"
  /\ exitCode' = 0
  /\ UNCHANGED <<inputs, raised, coco_path, coco, images_by_id, anns_by_image,
                 categories_by_id, color_map, allowed_names, cursor, processed,
                 missing_images, figures, rendered, visited, stdout>>

Next == Startup \/ LoopIteration \/ LoopEnd

\* ------------------------------------------------------------------ Init
NoSubset == [given |-> FALSE, str |-> <<>>]
AllKeys == Range(RequiredKeys)
Image(i, n) == [id |-> i, file_name |-> n]
Ann(i, img, okb, cat) == [id |-> i, image_id |-> img, bbox_ok |-> okb, category_id |-> cat]
Cat(i) == [id |-> i]
GoodFolder == [ok |-> TRUE, jsons |-> <<"coco.json">>, existing |-> Names,
               decodable |-> Names]

StateInit ==
  /\ pc = "start"
  /\ exitCode = -1
  /\ raised = NoException
  /\ coco_path = "none"
  /\ coco = [keys |-> {}, images |-> <<>>, annotations |-> <<>>, categories |-> <<>>]
  /\ images_by_id = EmptyDict
  /\ anns_by_image = <<>>
  /\ categories_by_id = EmptyDict
  /\ color_map = <<>>
  /\ allowed_names = NoNames
  /\ cursor = 0
  /\ processed = 0
  /\ missing_images = <<>>
  /\ figures = {}
  /\ rendered = <<>>
  /\ visited = <<>>
  /\ stdout = <<>>
  /\ stderr = <<>>

\* the images section, the files on disk and the output modes vary
Init ==
  /\ \E ex \in SUBSET Names : \E dec \in SUBSET ex :
       folder = [ok |-> TRUE, jsons |-> <<"coco.json">>, existing |-> ex,
                 decodable |-> dec]
  /\ \E imgs \in SeqUpTo([id : ImageIds, file_name : Names], MaxImages) :
       data = [keys |-> AllKeys, images |-> imgs,
               annotations |-> <<Ann(1, 1, TRUE, 1)>>,
               categories |-> <<Cat(1)>>]
  /\ \E sh \in BOOLEAN, sv \in BOOLEAN :
     \E sub \in {NoSubset, [given |-> TRUE, str |-> <<"a">>]} :
       args = [show |-> sh, save |-> sv, subset |-> sub]
  /\ rcColors = <<"red">>
  /\ StateInit

Spec == Init /\ [][Next]_vars

\* the annotations section varies: two images, both files present
WithIds(recs) == [i \in DOMAIN recs |->
                    Ann(i, recs[i].image_id, recs[i].bbox_ok, recs[i].category_id)]
InitRender ==
  /\ folder = GoodFolder
  /\ \E recs \in SeqUpTo([image_id : {1, 2, 3}, bbox_ok : BOOLEAN,
                          category_id : {1, 3}], MaxAnns) :
       data = [keys |-> AllKeys, images |-> <<Image(1, <<"a">>), Image(2, <<"b">>)>>,
               annotations |-> WithIds(recs), categories |-> <<Cat(1)>>]
  /\ \E sh \in BOOLEAN : args = [show |-> sh, save |-> FALSE, subset |-> NoSubset]
  /\ rcColors = <<"red">>
  /\ StateInit

SpecRender == InitRender /\ [][Next]_vars

\* the --subset argument varies over every short string
InitSubset ==
  /\ \E ex \in SUBSET Names :
       folder = [ok |-> TRUE, jsons |-> <<"coco.json">>, existing |-> ex,
                 decodable |-> ex]
  /\ \E imgs \in {<<Image(1, <<"a">>)>>, <<Image(1, <<"a">>), Image(2, <<"b">>)>>} :
       data = [keys |-> AllKeys, images |-> imgs, annotations |-> <<>>,
               categories |-> <<Cat(1)>>]
  /\ \E sub \in {NoSubset} \cup [given : {TRUE},
                                 str : SeqUpTo(SubsetAlphabet, MaxSubsetLen)] :
       args = [show |-> FALSE, save |-> TRUE, subset |-> sub]
  /\ rcColors = <<"red">>
  /\ StateInit

SpecSubset == InitSubset /\ [][Next]_vars

\* the folder's .json files and the top-level keys of the file vary
InitStartup ==
  /\ \E okf \in BOOLEAN :
     \E js \in {s \in SeqUpTo(JsonNames, MaxJsons) : IsInjective(s)} :
       folder = [ok |-> okf, jsons |-> js, existing |-> Names, decodable |-> Names]
  /\ \E ks \in SUBSET AllKeys :
       data = [keys |-> ks,
               images |-> IF "images" \in ks THEN <<Image(1, <<"a">>)>> ELSE <<>>,
               annotations |-> IF "annotations" \in ks
                               THEN <<Ann(1, 1, TRUE, 1)>> ELSE <<>>,
               categories |-> IF "categories" \in ks THEN <<Cat(1)>> ELSE <<>>]
  /\ args = [show |-> FALSE, save |-> FALSE, subset |-> NoSubset]
  /\ rcColors = <<"red">>
  /\ StateInit

SpecStartup == InitStartup /\ [][Next]_vars

\* the categories section and the palette vary
InitColor ==
  /\ folder = GoodFolder
  /\ \E cs \in SeqUpTo(CatIds, MaxCats) : \E c \in CatIds :
       data = [keys |-> AllKeys, images |-> <<Image(1, <<"a">>)>>,
               annotations |-> <<Ann(1, 1, TRUE, c)>>,
               categories |-> [i \in DOMAIN cs |-> Cat(cs[i])]]
  /\ args = [show |-> FALSE, save |-> FALSE, subset |-> NoSubset]
  /\ rcColors \in SeqUpTo(Colors, MaxPalette)
  /\ StateInit

SpecColor == InitColor /\ [][Next]_vars

\* ------------------------------------------------------------ properties
Initialized == coco.keys = AllKeys
Messages(kind) == SelectSeq(stderr, LAMBDA m : m.kind = kind)
LoopCompleted == pc = "exit" /\ exitCode = 0

\* C1: a failure of draw_image_with_bboxes for one image is not fatal: the
\* run goes on through every later image and ends with exit code 0.
C1_RenderErrorNonFatal ==
  (pc = "exit" /\ Initialized)
    => (exitCode = 0 /\ cursor = Len(images_by_id.keys))

\* C2: every visited image that passes the filter and whose file is absent is
\* appended to missing_images (in visit order, repeats kept), is not
\* rendered and does not stop the run; the consolidated warning appears only
\* once the loop has consumed every entry, lists exactly missing_images, and
\* is absent when nothing was missing.
EligibleMissing(v) ==
  ~FilteredOut(allowed_names, v.file_name) /\ v.file_name \notin folder.existing
ExpectedMissing ==
  LET sel == SelectSeq(visited, LAMBDA v : EligibleMissing(v))
  IN [i \in DOMAIN sel |-> sel[i].file_name]
C2_MissingAccumulated ==
  /\ missing_images = ExpectedMissing
  /\ \A i \in DOMAIN rendered : rendered[i].file_name \in folder.existing
  /\ (visited # <<>> /\ EligibleMissing(visited[Len(visited)])) => exitCode # 1
  /\ Messages("missing") # <<>>
       => (pc = "exit" /\ cursor = Len(images_by_id.keys))
  /\ LoopCompleted
       => Messages("missing") =
            (IF ExpectedMissing = <<>> THEN <<>>
             ELSE <<[kind |-> "missing", names |-> ExpectedMissing]>>)
C2_Witness ==
  /\ LoopCompleted
  /\ Len(visited) = 3
  /\ EligibleMissing(visited[1])
  /\ Len(rendered) = 1 /\ rendered[1].img_id = visited[2].img_id
  /\ EligibleMissing(visited[3])
  /\ Messages("missing") # <<>>

\* C3: with a non-empty --subset argument, every rendered image's file_name
\* is one of the names parsed from the comma-separated argument.
ParsedNames(str) == {Strip(p) : p \in Range(Split(str))} \ {<<>>}
C3_RenderedWithinSubset ==
  (args.subset.given /\ args.subset.str # <<>>)
    => \A i \in DOMAIN rendered :
         rendered[i].file_name \in ParsedNames(args.subset.str)

\* C4: when a loop iteration starts, no figure of an earlier iteration is
\* still open.
C4_NoFigureCarriedOver ==
  (pc = "loop" /\ cursor < Len(images_by_id.keys)) => figures = {}

\* C5: find_coco_json is decided by the set of candidates: none -> NotFound;
\* one -> that one; several -> the single preferred name if exactly one of
\* annotations.json / coco.json is present, else AmbiguousInput.
Candidates == Range(folder.jsons)
PreferredPresent == Candidates \cap {"annotations.json", "coco.json"}
C5_LocatorOutcome ==
  (folder.ok /\ pc # "start")
    => IF Candidates = {}
       THEN raised.type = "FileNotFoundError" /\ coco_path = "none" /\ exitCode = 1
       ELSE IF Cardinality(Candidates) = 1
       THEN coco_path \in Candidates /\ raised.type \notin {"FileNotFoundError", "RuntimeError"}
       ELSE IF Cardinality(PreferredPresent) = 1
       THEN coco_path \in PreferredPresent
            /\ raised.type \notin {"FileNotFoundError", "RuntimeError"}
       ELSE raised.type = "RuntimeError" /\ coco_path = "none" /\ exitCode = 1
C5_Witness ==
  /\ folder.ok /\ pc # "start"
  /\ Cardinality(Candidates) = 3
  /\ Cardinality(PreferredPresent) = 1
  /\ folder.jsons[1] \notin PreferredPresent
  /\ coco_path \in PreferredPresent

\* C6: when the loop has completed, the "no images were processed" line is
\* printed exactly when nothing was rendered, and never earlier.
C6_NoneProcessedDiagnostic ==
  /\ Messages("none_processed") # <<>> => LoopCompleted
  /\ LoopCompleted => (Len(Messages("none_processed")) = 1 <=> rendered = <<>>)
  /\ LoopCompleted => Len(Messages("none_processed")) <= 1
C6_Witness ==
  /\ LoopCompleted
  /\ Len(Messages("none_processed")) = 1
  /\ Len(visited) >= 2
  /\ args.subset.given
  /\ \A i \in DOMAIN visited :
       visited[i].file_name \in folder.existing
       /\ visited[i].file_name \notin ParsedNames(args.subset.str)

\* C7: a rendered image got exactly the annotations whose image_id is its
\* id, in file order; one rectangle per annotation; the caption counts them;
\* no annotations means no rectangles and "0 bboxes".
AnnsOf(id) == SelectSeq(data.annotations, LAMBDA a : a.image_id = id)
C7_AnnotationsJoined ==
  \A i \in DOMAIN rendered :
    LET r == rendered[i]
    IN /\ r.anns = AnnsOf(r.img_id)
       /\ Len(r.rects) = Len(AnnsOf(r.img_id))
       /\ \A k \in DOMAIN r.rects : r.rects[k].ann = AnnsOf(r.img_id)[k].id
       /\ r.title.count = Len(AnnsOf(r.img_id))
       /\ AnnsOf(r.img_id) = <<>>
            => (r.rects = <<>> /\ r.title.count = 0 /\ r.title.word = "bboxes")
C7_Witness ==
  /\ Len(rendered) = 2
  /\ Len(data.annotations) = 3
  /\ data.annotations[2].image_id # rendered[1].img_id
  /\ Len(rendered[1].rects) = 2
  /\ rendered[2].rects = <<>> /\ rendered[2].title.word = "bboxes"

\* C8: category_color_map gives the i-th smallest category id (from 0) the
\* palette colour i mod n, and its keys are exactly the category ids.
CategoryIdSet == {data.categories[i].id : i \in DOMAIN data.categories}
Palette == IF rcColors = <<>> THEN FallbackPalette ELSE rcColors
RankOf(c) == Cardinality({d \in CategoryIdSet : d < c})
C8_ColorBySortedRank ==
  Initialized
    => /\ DOMAIN color_map = CategoryIdSet
       /\ \A c \in CategoryIdSet :
            color_map[c] = Palette[(RankOf(c) % Len(Palette)) + 1]
C8_Witness ==
  /\ Initialized
  /\ Len(data.categories) = 3
  /\ data.categories[1].id = 5 /\ data.categories[2].id = 1
  /\ data.categories[3].id = 3
  /\ Len(rcColors) = 2 /\ rcColors[1] # rcColors[2]
  /\ color_map[5] = rcColors[1]

\* C9: load_coco raises the error naming the first absent key of images,
\* annotations, categories; with all three present it returns the data.
C9_RequiredKeys ==
  (folder.ok /\ coco_path # "none" /\ pc # "start")
    => IF "images" \notin data.keys
       THEN raised = [type |-> "ValueError", detail |-> "images"] /\ exitCode = 1
       ELSE IF "annotations" \notin data.keys
       THEN raised = [type |-> "ValueError", detail |-> "annotations"] /\ exitCode = 1
       ELSE IF "categories" \notin data.keys
       THEN raised = [type |-> "ValueError", detail |-> "categories"] /\ exitCode = 1
       ELSE raised.type # "ValueError" /\ coco = data
C9_Witness ==
  /\ pc = "exit"
  /\ data.keys = {"images", "annotations"}
  /\ raised.detail = "categories"

\* C10: the loop takes each distinct image id once, in the order in which
\* the ids first occur in the images section, and uses the last record that
\* carries the id.
FirstAt(i) == \A j \in 1..(i - 1) : data.images[j].id # data.images[i].id
LastRecord(id) ==
  data.images[CHOOSE i \in DOMAIN data.images :
                /\ data.images[i].id = id
                /\ \A j \in (i + 1)..Len(data.images) : data.images[j].id # id]
ExpectedVisits ==
  LET ids == SelectSeq([i \in DOMAIN data.images |-> i], LAMBDA i : FirstAt(i))
  IN [k \in DOMAIN ids |->
        [img_id |-> data.images[ids[k]].id,
         file_name |-> LastRecord(data.images[ids[k]].id).file_name]]
C10_VisitOrder ==
  Initialized
    => /\ cursor = Len(visited)
       /\ cursor <= Len(ExpectedVisits)
       /\ visited = SubSeq(ExpectedVisits, 1, cursor)
       /\ LoopCompleted => visited = ExpectedVisits
       /\ \A i \in DOMAIN rendered :
            rendered[i].file_name = LastRecord(rendered[i].img_id).file_name
C10_Witness ==
  /\ LoopCompleted
  /\ Len(data.images) = 3
  /\ data.images[1].id = data.images[3].id
  /\ data.images[1].id # data.images[2].id
  /\ data.images[1].file_name # data.images[3].file_name
  /\ Len(visited) = 2
  /\ visited[1].file_name = data.images[3].file_name

====
